---- MODULE Spec2Model ----
(***************************************************************************)
(* Session Brain (session-brain/session_brain_server.py): per-ip rolling   *)
(* windows of outcome samples, the statistics derived from a window, the   *)
(* threshold rules that emit a block decision, the in-memory registry of   *)
(* active blocks and the sqlite tables of events and decisions.            *)
(*                                                                         *)
(* Time is in milliseconds, as now_ms() returns it.  Optional values are   *)
(* sequences of length 0 (None) or 1.                                      *)
(***************************************************************************)
EXTENDS Integers, Sequences, FiniteSets, TLC

VARIABLES
    cfg,            \* the thresholds read from the environment at import time
    now,            \* what now_ms() returns
    ip_windows,     \* ip -> deque of (ts_ms, status, latency_ms) items
    active_blocks,  \* ip -> expires_ts_ms (a dict: only the keys ever blocked)
    events,         \* rows of the sqlite table events, in id order
    decisions,      \* rows of the sqlite table decisions, in id order
    resp,           \* the response of the request handled last
    th              \* the requests in flight: thread -> its position and locals

vars == <<cfg, now, ip_windows, active_blocks, events, decisions, resp, th>>

None == <<>>
Some(x) == <<x>>

----------------------------------------------------------------------------
(* Bounds of the model. *)

MaxEvents == 3
MaxTime == 1500

TickSteps == {500}

Keys == {"1.2.3.4", "5.6.7.8"}

----------------------------------------------------------------------------
(* Configuration: lines 32-48.  Every value is read from the environment,  *)
(* with the defaults below.                                                *)

WINDOW_SEC == 60
MAX_429_PER_WINDOW == 20
MAX_5XX_PER_WINDOW == 15
MAX_TIMEOUTS_PER_WINDOW == 10
MAX_LATENCY_P95_MS == 2500
BLOCK_TTL_SEC == 900

DISCONNECT_STATUS == {499, 502, 503, 504}

DefaultCfg ==
    [WINDOW_SEC |-> WINDOW_SEC,
     MAX_429_PER_WINDOW |-> MAX_429_PER_WINDOW,
     MAX_5XX_PER_WINDOW |-> MAX_5XX_PER_WINDOW,
     MAX_TIMEOUTS_PER_WINDOW |-> MAX_TIMEOUTS_PER_WINDOW,
     MAX_LATENCY_P95_MS |-> MAX_LATENCY_P95_MS,
     BLOCK_TTL_SEC |-> BLOCK_TTL_SEC,
     GEMINI_API_KEY |-> "",
     GEMINI_MODEL |-> ""]

\* SB_WINDOW_SEC=1 SB_MAX_429_PER_WINDOW=2 SB_MAX_5XX_PER_WINDOW=2
\* SB_MAX_TIMEOUTS_PER_WINDOW=2 SB_MAX_LATENCY_P95_MS=5 SB_BLOCK_TTL_SEC=1
SmallCfg ==
    [WINDOW_SEC |-> 1,
     MAX_429_PER_WINDOW |-> 2,
     MAX_5XX_PER_WINDOW |-> 2,
     MAX_TIMEOUTS_PER_WINDOW |-> 2,
     MAX_LATENCY_P95_MS |-> 5,
     BLOCK_TTL_SEC |-> 1,
     GEMINI_API_KEY |-> "",
     GEMINI_MODEL |-> ""]

----------------------------------------------------------------------------
(* Python helpers. *)

\* bool(x) of an Optional[int]: None and 0 are falsy
Truthy(o) == o # None /\ o[1] # 0

\* d.get(key, default)
Get(d, key, default) == IF key \in DOMAIN d THEN d[key] ELSE default

RECURSIVE Insert(_, _)
Insert(s, x) ==
    IF s = <<>> THEN <<x>>
    ELSE IF x < Head(s) THEN <<x>> \o s
    ELSE <<Head(s)>> \o Insert(Tail(s), x)

RECURSIVE sorted(_)
sorted(values) ==
    IF values = <<>> THEN <<>>
    ELSE Insert(sorted(SubSeq(values, 1, Len(values) - 1)), values[Len(values)])

\* RoundHalfEven cutting the fraction off: int(num / den)
RoundHalfEven_Truncate(num, den) == num \div den

\* int(round(num / den)) for num >= 0: Python rounds a tie to the even integer
RoundHalfEven(num, den) ==
    LET q == num \div den
        r == num % den
    IN IF 2 * r < den THEN q
       ELSE IF 2 * r > den THEN q + 1
       ELSE IF q % 2 = 0 THEN q ELSE q + 1

Min(a, b) == IF a < b THEN a ELSE b
Max(a, b) == IF a > b THEN a ELSE b

\* "sep".join(strs)
RECURSIVE Join(_, _)
Join(strs, sep) ==
    IF strs = <<>> THEN ""
    ELSE IF Len(strs) = 1 THEN strs[1]
    ELSE strs[1] \o sep \o Join(Tail(strs), sep)

\* rows[:n] for n >= 0
Take(rows, n) == SubSeq(rows, 1, Min(n, Len(rows)))

\* s.lstrip(chars), s.rstrip(chars), s.strip()
RECURSIVE lstrip(_, _)
lstrip(s, chars) ==
    IF s # "" /\ SubSeq(s, 1, 1) \in chars
    THEN lstrip(SubSeq(s, 2, Len(s)), chars)
    ELSE s

RECURSIVE rstrip(_, _)
rstrip(s, chars) ==
    IF s # "" /\ SubSeq(s, Len(s), Len(s)) \in chars
    THEN rstrip(SubSeq(s, 1, Len(s) - 1), chars)
    ELSE s

Whitespace == {" ", "\t", "\n", "\r"}

strip(s) == rstrip(lstrip(s, Whitespace), Whitespace)

\* text.splitlines(), the line ends being "\n"
RECURSIVE splitlines(_)
splitlines(text) ==
    IF text = "" THEN <<>>
    ELSE LET ends == {i \in 1..Len(text) : SubSeq(text, i, i) = "\n"}
         IN IF ends = {} THEN <<text>>
            ELSE LET n == CHOOSE i \in ends : \A j \in ends : i <= j
                 IN <<SubSeq(text, 1, n - 1)>> \o splitlines(SubSeq(text, n + 1, Len(text)))

\* [x[2] for x in w], the latency_ms of the items of w
Latencies(w) == [i \in 1..Len(w) |-> w[i][3]]

----------------------------------------------------------------------------
(* prune_window, percentile, record_event, add_to_windows. *)

RECURSIVE prune_window(_, _)
prune_window(q, cutoff_ts_ms) ==
    IF q # <<>> /\ q[1][1] < cutoff_ts_ms
    THEN prune_window(Tail(q), cutoff_ts_ms)
    ELSE q

\* p is given in percent (95 for 0.95)
percentile(values, p) ==
    IF values = <<>> THEN None
    ELSE LET s == sorted(values)
             k == RoundHalfEven((Len(s) - 1) * p, 100)
         IN Some(s[Max(0, Min(k, Len(s) - 1)) + 1])

\* the ts_ms of an event: the caller's, or server time when omitted
EventTs(e, t) == IF e.ts_ms # None THEN e.ts_ms[1] ELSE t

\* the row record_event inserts, read at server time t
record_event(evs, e, t) ==
    Append(evs, [id |-> Len(evs) + 1, ts_ms |-> EventTs(e, t), ip |-> e.ip,
                 status |-> e.status, latency_ms |-> e.latency_ms])

\* the item add_to_windows appends: e.latency_ms or -1
WindowItem(e, t) ==
    <<EventTs(e, t), e.status, IF Truthy(e.latency_ms) THEN e.latency_ms[1] ELSE -1>>

\* add_to_windows putting the item into the window of every ip
add_to_windows_AllKeys(wins, e, t) ==
    LET item == WindowItem(e, t)
        cutoff == item[1] - cfg.WINDOW_SEC * 1000
    IN [k \in DOMAIN wins |-> prune_window(Append(wins[k], item), cutoff)]

add_to_windows(wins, e, t) ==
    LET item == WindowItem(e, t)
        cutoff == item[1] - cfg.WINDOW_SEC * 1000
    IN [wins EXCEPT ![e.ip] = prune_window(Append(@, item), cutoff)]

----------------------------------------------------------------------------
(* compute_ip_stats. *)

Is429(s) == s = 429
Is5xx(s) == 500 <= s /\ s <= 599
\* IsDisconnect leaving out the statuses already counted as 5xx
IsDisconnect_Not5xx(s) == s \in DISCONNECT_STATUS /\ ~(500 <= s /\ s <= 599)

IsDisconnect(s) == s \in DISCONNECT_STATUS
Measured(x) == x[3] >= 0

compute_ip_stats(wins, ip) ==
    LET w == wins[ip]
    IN IF w = <<>>
       THEN [ip |-> ip, window_sec |-> cfg.WINDOW_SEC, count |-> 0]
       ELSE LET statuses == [i \in 1..Len(w) |-> w[i][2]]
                latencies == Latencies(SelectSeq(w, Measured))
            IN [ip |-> ip,
                window_sec |-> cfg.WINDOW_SEC,
                count |-> Len(w),
                status_429 |-> Len(SelectSeq(statuses, Is429)),
                status_5xx |-> Len(SelectSeq(statuses, Is5xx)),
                disconnect_like |-> Len(SelectSeq(statuses, IsDisconnect)),
                latency_p95_ms |-> IF latencies # <<>>
                                   THEN percentile(latencies, 95) ELSE None]

----------------------------------------------------------------------------
(* maybe_decide. *)

\* IsBlocked with the expiry instant itself still blocked (>= for >)
IsBlocked_Inclusive(blocks, ip, t) ==
    /\ ip \in DOMAIN blocks
    /\ blocks[ip] # 0
    /\ blocks[ip] >= t

\* lines 200-202: exp and exp > now_ms()
IsBlocked(blocks, ip, t) ==
    /\ ip \in DOMAIN blocks
    /\ blocks[ip] # 0
    /\ blocks[ip] > t

\* Rule429 firing one sample early
Rule429_OffByOne(st) == Get(st, "status_429", 0) >= cfg.MAX_429_PER_WINDOW - 1

\* Rule429 with > for >=
Rule429_Strict(st) == Get(st, "status_429", 0) > cfg.MAX_429_PER_WINDOW

Rule429(st) == Get(st, "status_429", 0) >= cfg.MAX_429_PER_WINDOW
Rule5xx(st) == Get(st, "status_5xx", 0) >= cfg.MAX_5XX_PER_WINDOW
RuleDisconnect(st) == Get(st, "disconnect_like", 0) >= cfg.MAX_TIMEOUTS_PER_WINDOW
RuleP95(st) ==
    LET p95 == Get(st, "latency_p95_ms", None)
    IN p95 # None /\ p95[1] >= cfg.MAX_LATENCY_P95_MS

\* Reasons with the latency rule evaluated first
Reasons_P95First(st) ==
    LET W == ToString(cfg.WINDOW_SEC)
    IN (IF RuleP95(st)
        THEN <<"p95 latency too high (" \o ToString(st.latency_p95_ms[1]) \o "ms)">>
        ELSE <<>>)
       \o (IF Rule429(st)
           THEN <<"too many 429 in " \o W \o "s (" \o ToString(st.status_429) \o ")">>
           ELSE <<>>)
       \o (IF Rule5xx(st)
           THEN <<"too many 5xx in " \o W \o "s (" \o ToString(st.status_5xx) \o ")">>
           ELSE <<>>)
       \o (IF RuleDisconnect(st)
           THEN <<"too many disconnect/timeout-like statuses in " \o W \o "s ("
                  \o ToString(st.disconnect_like) \o ")">>
           ELSE <<>>)

\* lines 207-216
Reasons(st) ==
    LET W == ToString(cfg.WINDOW_SEC)
    IN (IF Rule429(st)
        THEN <<"too many 429 in " \o W \o "s (" \o ToString(st.status_429) \o ")">>
        ELSE <<>>)
       \o (IF Rule5xx(st)
           THEN <<"too many 5xx in " \o W \o "s (" \o ToString(st.status_5xx) \o ")">>
           ELSE <<>>)
       \o (IF RuleDisconnect(st)
           THEN <<"too many disconnect/timeout-like statuses in " \o W \o "s ("
                  \o ToString(st.disconnect_like) \o ")">>
           ELSE <<>>)
       \o (IF RuleP95(st)
           THEN <<"p95 latency too high (" \o ToString(st.latency_p95_ms[1]) \o "ms)">>
           ELSE <<>>)

\* lines 221-228, with now_ms() = t
Decision(ip, st, reasons, t) ==
    [ts_ms |-> t,
     kind |-> "block_ip",
     target |-> ip,
     ttl_sec |-> cfg.BLOCK_TTL_SEC,
     reason |-> Join(reasons, "; "),
     evidence |-> [stats |-> st]]

\* line 245
Activate(blocks, d) ==
    [k \in DOMAIN blocks \cup {d.target} |->
        IF k = d.target THEN d.ts_ms + d.ttl_sec * 1000 ELSE blocks[k]]

\* lines 209, 211, 213: the text of a matched rule reads st['...'], which
\* raises KeyError when the statistics have no such counter
MissingCounter(st) ==
    \/ Rule429(st) /\ "status_429" \notin DOMAIN st
    \/ Rule5xx(st) /\ "status_5xx" \notin DOMAIN st
    \/ RuleDisconnect(st) /\ "disconnect_like" \notin DOMAIN st

\* the whole of maybe_decide at server time t, the insert succeeding:
\* what it returns or raises, and what it leaves in the ledger and the
\* registry
maybe_decide(wins, blocks, ledger, ip, t) ==
    IF IsBlocked(blocks, ip, t)
    THEN [ret |-> None, raised |-> None, decisions |-> ledger, active_blocks |-> blocks]
    ELSE LET st == compute_ip_stats(wins, ip)
             reasons == Reasons(st)
         IN IF MissingCounter(st)
            THEN [ret |-> None, raised |-> Some("KeyError"),
                  decisions |-> ledger, active_blocks |-> blocks]
            ELSE IF reasons = <<>>
            THEN [ret |-> None, raised |-> None,
                  decisions |-> ledger, active_blocks |-> blocks]
            ELSE LET d == Decision(ip, st, reasons, t)
                 IN [ret |-> Some(d),
                     raised |-> None,
                     decisions |-> Append(ledger, d),
                     active_blocks |-> Activate(blocks, d)]

\* list_blocks reporting an entry at the instant it expires (>= for >)
list_blocks_Inclusive(blocks, t) ==
    [active_blocks |-> [k \in {x \in DOMAIN blocks : blocks[x] >= t} |-> blocks[k]],
     now_ms |-> t]

\* list_blocks reporting every entry of the registry, lapsed or not
list_blocks_NoExpiry(blocks, t) ==
    [active_blocks |-> blocks, now_ms |-> t]

\* list_blocks at server time t
list_blocks(blocks, t) ==
    [active_blocks |-> [k \in {x \in DOMAIN blocks : blocks[x] > t} |-> blocks[k]],
     now_ms |-> t]

----------------------------------------------------------------------------
(* list_decisions. *)

\* LIMIT n of sqlite: a negative n is no limit
Limit(rows, n) == IF n < 0 THEN rows ELSE Take(rows, n)

\* list_decisions returning the oldest decisions first (ASC for DESC)
list_decisions_OldestFirst(ledger, limit) ==
    LET n == Len(ledger)
        orders == {p \in [1..n -> 1..n] :
                     /\ \A i, j \in 1..n : i # j => p[i] # p[j]
                     /\ \A i \in 1..(n - 1) : ledger[p[i]].ts_ms <= ledger[p[i + 1]].ts_ms}
    IN {[decisions |-> Limit([i \in 1..n |-> ledger[p[i]]], limit)] : p \in orders}

\* lines 275-292: the rows ORDER BY ts_ms DESC LIMIT ?, rows of one ts_ms in
\* whatever order sqlite produces them; every answer the call can give.
\* A row holds the evidence as its JSON text, which line 289 parses back.
list_decisions(ledger, limit) ==
    LET n == Len(ledger)
        orders == {p \in [1..n -> 1..n] :
                     /\ \A i, j \in 1..n : i # j => p[i] # p[j]
                     /\ \A i \in 1..(n - 1) : ledger[p[i]].ts_ms >= ledger[p[i + 1]].ts_ms}
    IN {[decisions |-> Limit([i \in 1..n |-> ledger[p[i]]], limit)] : p \in orders}

----------------------------------------------------------------------------
(* call_gemini and analyze. *)

\* line 357: GEMINI_API_KEY and GEMINI_MODEL
Configured == cfg.GEMINI_API_KEY # "" /\ cfg.GEMINI_MODEL # ""

\* a response body with the text at candidates[0].content.parts[0].text
TextData(text) == [candidates |-> <<[content |-> [parts |-> <<[text |-> text]>>]]>>]

\* a response body that is JSON and has no candidates
BlockedData == [promptFeedback |-> [blockReason |-> "SAFETY"]]

\* line 260: the path data["candidates"][0]["content"]["parts"][0]["text"]
HasText(data) ==
    /\ "candidates" \in DOMAIN data
    /\ Len(data.candidates) >= 1
    /\ "content" \in DOMAIN data.candidates[1]
    /\ "parts" \in DOMAIN data.candidates[1].content
    /\ Len(data.candidates[1].content.parts) >= 1
    /\ "text" \in DOMAIN data.candidates[1].content.parts[1]

\* json.dumps(data, ensure_ascii=False) of the bodies of the model
json_dumps(data) ==
    IF data = BlockedData
    THEN "{\"promptFeedback\": {\"blockReason\": \"SAFETY\"}}"
    ELSE "{\"candidates\": []}"

GeminiText ==
    "Backend overload on one ip.\n\n- 503 spike\n  - lower the rate \nSee the logs."

\* what the endpoint does with the request of line 255: the connection
\* fails, the 60 s timeout passes, or a response comes back, whose body is
\* not JSON (json |-> None) or is the JSON data
GeminiOutcomes ==
    { [kind |-> "ConnectionError"],
      [kind |-> "Timeout"],
      [kind |-> "response", status_code |-> 503, json |-> None],
      [kind |-> "response", status_code |-> 200, json |-> None],
      [kind |-> "response", status_code |-> 200, json |-> Some(BlockedData)],
      [kind |-> "response", status_code |-> 200, json |-> Some(TextData(GeminiText))] }

\* call_gemini(prompt), the endpoint doing g: the text returned, or raised
call_gemini(g) ==
    IF ~Configured THEN [raised |-> TRUE]
    ELSE IF g.kind # "response" THEN [raised |-> TRUE]
    ELSE IF g.status_code >= 300 THEN [raised |-> TRUE]
    ELSE IF g.json = None THEN [raised |-> TRUE]
    ELSE LET data == g.json[1]
         IN IF HasText(data)
            THEN [raised |-> FALSE, text |-> data.candidates[1].content.parts[1].text]
            ELSE [raised |-> FALSE, text |-> json_dumps(data)]

\* lines 304-319: the rows of events the filters select
SelectEvents(evs, filters, t) ==
    LET to_ts == IF Truthy(filters.to_ts_ms) THEN filters.to_ts_ms[1] ELSE t
        from_ts == IF Truthy(filters.from_ts_ms) THEN filters.from_ts_ms[1]
                   ELSE to_ts - 3600000
        Selected(r) ==
            /\ from_ts <= r.ts_ms
            /\ r.ts_ms <= to_ts
            /\ (filters.ip # None /\ filters.ip[1] # "") => r.ip = filters.ip[1]
    IN Limit(SelectSeq(evs, Selected), filters.limit)

\* lines 335-343
AnalyzeStats(rows) ==
    LET statuses == [i \in 1..Len(rows) |-> rows[i].status]
        given == SelectSeq(rows, LAMBDA r : r.latency_ms # None)
        lat == [i \in 1..Len(given) |-> given[i].latency_ms[1]]
    IN [count |-> Len(rows),
        status_429 |-> Len(SelectSeq(statuses, Is429)),
        status_5xx |-> Len(SelectSeq(statuses, Is5xx)),
        disconnect_like |-> Len(SelectSeq(statuses, IsDisconnect)),
        latency_p95_ms |-> IF lat # <<>> THEN percentile(lat, 95) ELSE None]

\* lines 361-364: summary and key points out of the text returned (the
\* bullet markers are "-" and U+2022; the texts of the model use "-")
ParseText(text) ==
    LET raw == splitlines(text)
        stripped == [i \in 1..Len(raw) |-> strip(raw[i])]
        lines == SelectSeq(stripped, LAMBDA ln : ln # "")
        bullets == SelectSeq(lines, LAMBDA ln : SubSeq(ln, 1, 1) = "-")
        key_points == Take([i \in 1..Len(bullets) |-> strip(lstrip(bullets[i], {"-", " "}))], 12)
    IN [summary |-> IF lines # <<>> THEN Join(Take(lines, 6), "\n") ELSE text,
        key_points |-> key_points,
        suggested_actions |-> Take(key_points, 6)]

\* FallbackKeyPoints without the key point of the disconnect-like statuses
FallbackKeyPoints_NoDisconnect(stats) ==
    (IF stats.status_429 >= 1
     THEN <<"429 detected: possible rate limiting / protection">> ELSE <<>>)
    \o (IF stats.status_5xx >= 1
        THEN <<"5xx detected: backend crash/restart/timeout">> ELSE <<>>)
    \o (IF Truthy(stats.latency_p95_ms)
           /\ stats.latency_p95_ms[1] >= cfg.MAX_LATENCY_P95_MS
        THEN <<"p95 latency high: saturation or downstream slowness">> ELSE <<>>)

\* lines 369-376
FallbackKeyPoints(stats) ==
    (IF stats.status_429 >= 1
     THEN <<"429 detected: possible rate limiting / protection">> ELSE <<>>)
    \o (IF stats.status_5xx >= 1
        THEN <<"5xx detected: backend crash/restart/timeout">> ELSE <<>>)
    \o (IF stats.disconnect_like >= 1
        THEN <<"disconnect-like statuses detected">> ELSE <<>>)
    \o (IF Truthy(stats.latency_p95_ms)
           /\ stats.latency_p95_ms[1] >= cfg.MAX_LATENCY_P95_MS
        THEN <<"p95 latency high: saturation or downstream slowness">> ELSE <<>>)

\* line 377
InsufficientSignal == "Insufficient signal; widen time range or filter by ip/session."

\* lines 378-382
FixedActions ==
    << "Lower RPM temporarily for affected sessions",
       "Mark suspect proxy as BAD and switch sessions",
       "Inspect logs around the spike window" >>

\* analyze(filters) at server time t, the endpoint doing g: the response
analyze(evs, filters, g, t) ==
    LET stats == AnalyzeStats(SelectEvents(evs, filters, t))
        called == call_gemini(g)
        used_gemini == Configured /\ ~called.raised
        parsed == ParseText(called.text)
        key_points == IF used_gemini THEN parsed.key_points ELSE FallbackKeyPoints(stats)
        summary == IF used_gemini THEN parsed.summary
                   ELSE IF key_points # <<>> THEN Join(key_points, " | ")
                   ELSE InsufficientSignal
    IN [used_gemini |-> used_gemini,
        summary |-> Take(summary, 2000),
        key_points |-> key_points,
        suggested_actions |-> IF used_gemini THEN parsed.suggested_actions
                              ELSE FixedActions,
        supporting_stats |-> stats]

----------------------------------------------------------------------------
(* Requests. *)

\* (status, latency_ms) of the events of the model: a fast answer measured at
\* 0 ms, a 429 with no latency measured, a 500 (5xx only) with none measured,
\* a slow 503 (5xx and disconnect-like)
Kinds ==
    { [status |-> 200, latency_ms |-> Some(0)],
      [status |-> 429, latency_ms |-> None],
      [status |-> 500, latency_ms |-> None],
      [status |-> 503, latency_ms |-> Some(9)] }

\* ts_ms omitted: server time is used
ServerStamped ==
    { [ip |-> k, ts_ms |-> None, status |-> x.status, latency_ms |-> x.latency_ms] :
        k \in Keys, x \in Kinds }

\* ts_ms given by the caller, whatever the server's clock says
ClientStamped ==
    { [ip |-> k, ts_ms |-> Some(0), status |-> 429, latency_ms |-> None] : k \in Keys }

EventIn == ServerStamped \cup ClientStamped

Threads == {1, 2}

NoResp == [op |-> "none"]
Idle == [pc |-> "idle"]

----------------------------------------------------------------------------
(* Spec: the requests handled one at a time, every sqlite write succeeding. *)

Init ==
    /\ cfg = SmallCfg
    /\ now = 0
    /\ ip_windows = [k \in Keys |-> <<>>]
    /\ active_blocks = <<>>
    /\ events = <<>>
    /\ decisions = <<>>
    /\ resp = NoResp
    /\ th = [t \in Threads |-> Idle]

Tick ==
    /\ \E d \in TickSteps : now + d <= MaxTime /\ now' = now + d
    /\ UNCHANGED <<cfg, ip_windows, active_blocks, events, decisions, resp, th>>

\* lines 267-270: record_event, add_to_windows, maybe_decide and the response
Handle(e) ==
    /\ LET evs == record_event(events, e, now)
           wins == add_to_windows(ip_windows, e, now)
           r == maybe_decide(wins, active_blocks, decisions, e.ip, now)
       IN /\ events' = evs
          /\ ip_windows' = wins
          /\ decisions' = r.decisions
          /\ active_blocks' = r.active_blocks
          /\ resp' = IF r.raised # None
                      THEN [op |-> "event", ok |-> FALSE, raised |-> "maybe_decide"]
                      ELSE [op |-> "event", ok |-> TRUE, event_id |-> Len(evs),
                            decision |-> r.ret]
    /\ UNCHANGED <<cfg, now, th>>

\* POST /event, lines 265-270
IngestEvent(e) ==
    /\ Len(events) < MaxEvents
    /\ Handle(e)

\* GET /blocks, lines 295-299
ListBlocks ==
    /\ resp' = [op |-> "blocks"] @@ list_blocks(active_blocks, now)
    /\ UNCHANGED <<cfg, now, ip_windows, active_blocks, events, decisions, th>>

Next ==
    \/ Tick
    \/ \E e \in EventIn : IngestEvent(e)
    \/ ListBlocks

Spec == Init /\ [][Next]_vars

----------------------------------------------------------------------------
(* SpecConc: ingest_event is a sync handler, which the server runs on worker *)
(* threads; nothing in the module takes a lock.  A request is split at the   *)
(* calls of ingest_event and, inside maybe_decide, at the reads and writes   *)
(* of the shared state; the clock may advance between any two steps, and     *)
(* either sqlite insert may raise.                                           *)

MaxRequests == 2
MaxConcTime == 500

\* the events of the concurrent model
ConcEventIn ==
    {e \in ServerStamped : e.status = 503 \/ (e.status = 429 /\ e.ip = "1.2.3.4")}

\* the clock between two steps of the requests in flight
TickConc ==
    /\ \E d \in TickSteps : now + d <= MaxConcTime /\ now' = now + d
    /\ UNCHANGED <<cfg, ip_windows, active_blocks, events, decisions, resp, th>>

InFlight(pcs) == {t \in Threads : th[t].pc \in pcs}

\* the request is picked up by worker thread t
Receive(t, e) ==
    /\ th[t].pc = "idle"
    /\ Len(events) + Cardinality(InFlight({"record"})) < MaxRequests
    /\ th' = [th EXCEPT ![t] = [pc |-> "record", e |-> e]]
    /\ UNCHANGED <<cfg, now, ip_windows, active_blocks, events, decisions, resp>>

\* line 267: record_event(e)
RecordEvent(t) ==
    /\ th[t].pc = "record"
    /\ events' = record_event(events, th[t].e, now)
    /\ th' = [th EXCEPT ![t] = [pc |-> "add", e |-> th[t].e, event_id |-> Len(events')]]
    /\ UNCHANGED <<cfg, now, ip_windows, active_blocks, decisions, resp>>

\* RecordEventFails with the sample put into the window all the same
RecordEventFails_StillAdds(t) ==
    /\ th[t].pc = "record"
    /\ th' = [th EXCEPT ![t] = Idle]
    /\ ip_windows' = add_to_windows(ip_windows, th[t].e, now)
    /\ resp' = [op |-> "event", ok |-> FALSE, raised |-> "record_event"]
    /\ UNCHANGED <<cfg, now, active_blocks, events, decisions>>

\* line 267: the insert into events raises; the handler ends with the error
RecordEventFails(t) ==
    /\ th[t].pc = "record"
    /\ th' = [th EXCEPT ![t] = Idle]
    /\ resp' = [op |-> "event", ok |-> FALSE, raised |-> "record_event"]
    /\ UNCHANGED <<cfg, now, ip_windows, active_blocks, events, decisions>>

\* line 268: add_to_windows(e)
AddToWindows(t) ==
    /\ th[t].pc = "add"
    /\ ip_windows' = add_to_windows(ip_windows, th[t].e, now)
    /\ th' = [th EXCEPT ![t].pc = "check"]
    /\ UNCHANGED <<cfg, now, active_blocks, events, decisions, resp>>

\* lines 200-202: skip if already blocked
CheckBlocked(t) ==
    /\ th[t].pc = "check"
    /\ IF IsBlocked(active_blocks, th[t].e.ip, now)
       THEN /\ th' = [th EXCEPT ![t] = Idle]
            /\ resp' = [op |-> "event", ok |-> TRUE, event_id |-> th[t].event_id,
                        decision |-> None]
       ELSE /\ th' = [th EXCEPT ![t].pc = "evaluate"]
            /\ resp' = resp
    /\ UNCHANGED <<cfg, now, ip_windows, active_blocks, events, decisions>>

\* lines 204-228: the statistics, the reasons and the decision
Evaluate(t) ==
    /\ th[t].pc = "evaluate"
    /\ LET ip == th[t].e.ip
           st == compute_ip_stats(ip_windows, ip)
           reasons == Reasons(st)
       IN IF reasons = <<>>
          THEN /\ th' = [th EXCEPT ![t] = Idle]
               /\ resp' = [op |-> "event", ok |-> TRUE, event_id |-> th[t].event_id,
                           decision |-> None]
          ELSE /\ th' = [th EXCEPT ![t] = [pc |-> "insert", e |-> th[t].e,
                                           event_id |-> th[t].event_id,
                                           decision |-> Decision(ip, st, reasons, now)]]
               /\ resp' = resp
    /\ UNCHANGED <<cfg, now, ip_windows, active_blocks, events, decisions>>

\* lines 231-243: the insert into decisions, committed
InsertDecision(t) ==
    /\ th[t].pc = "insert"
    /\ decisions' = Append(decisions, th[t].decision)
    /\ th' = [th EXCEPT ![t].pc = "activate"]
    /\ UNCHANGED <<cfg, now, ip_windows, active_blocks, events, resp>>

\* InsertDecisionFails with the error swallowed and the block activated
InsertDecisionFails_StillActivates(t) ==
    /\ th[t].pc = "insert"
    /\ th' = [th EXCEPT ![t] = Idle]
    /\ active_blocks' = Activate(active_blocks, th[t].decision)
    /\ resp' = [op |-> "event", ok |-> FALSE, raised |-> "maybe_decide"]
    /\ UNCHANGED <<cfg, now, ip_windows, events, decisions>>

\* lines 231-243: the insert raises; line 245 is not reached and the error
\* leaves maybe_decide and ingest_event
InsertDecisionFails(t) ==
    /\ th[t].pc = "insert"
    /\ th' = [th EXCEPT ![t] = Idle]
    /\ resp' = [op |-> "event", ok |-> FALSE, raised |-> "maybe_decide"]
    /\ UNCHANGED <<cfg, now, ip_windows, active_blocks, events, decisions>>

\* lines 245-246 and 270: the registry entry, and the response
ActivateBlock(t) ==
    /\ th[t].pc = "activate"
    /\ active_blocks' = Activate(active_blocks, th[t].decision)
    /\ th' = [th EXCEPT ![t] = Idle]
    /\ resp' = [op |-> "event", ok |-> TRUE, event_id |-> th[t].event_id,
                decision |-> Some(th[t].decision)]
    /\ UNCHANGED <<cfg, now, ip_windows, events, decisions>>

NextConc ==
    \/ TickConc
    \/ \E t \in Threads, e \in ConcEventIn : Receive(t, e)
    \/ \E t \in Threads : RecordEvent(t)
    \/ \E t \in Threads : RecordEventFails(t)
    \/ \E t \in Threads : AddToWindows(t)
    \/ \E t \in Threads : CheckBlocked(t)
    \/ \E t \in Threads : Evaluate(t)
    \/ \E t \in Threads : InsertDecision(t)
    \/ \E t \in Threads : InsertDecisionFails(t)
    \/ \E t \in Threads : ActivateBlock(t)

SpecConc == Init /\ [][NextConc]_vars

\* the process dies and is started again: the module state is built anew
\* (lines 125-126), the sqlite tables are as they were
Crash ==
    /\ ip_windows' = [k \in Keys |-> <<>>]
    /\ active_blocks' = <<>>
    /\ th' = [t \in Threads |-> Idle]
    /\ resp' = NoResp
    /\ UNCHANGED <<cfg, now, events, decisions>>

NextCrash ==
    \/ NextConc
    \/ Crash

SpecCrash == Init /\ [][NextCrash]_vars

----------------------------------------------------------------------------
(* SpecBurst: the default configuration, but for MAX_429_PER_WINDOW, and one *)
(* client sending 429 after 429 inside one window of 60 s.                   *)

MaxBurst == 25
MaxBurstTime == 40000

BurstSteps == {20000}
BurstThresholds == {1, 5, MAX_429_PER_WINDOW}
BurstKey == "1.2.3.4"

InitBurst ==
    /\ \E n \in BurstThresholds : cfg = [DefaultCfg EXCEPT !.MAX_429_PER_WINDOW = n]
    /\ now = 0
    /\ ip_windows = [k \in Keys |-> <<>>]
    /\ active_blocks = <<>>
    /\ events = <<>>
    /\ decisions = <<>>
    /\ resp = NoResp
    /\ th = [t \in Threads |-> Idle]

TickBurst ==
    /\ \E d \in BurstSteps : now + d <= MaxBurstTime /\ now' = now + d
    /\ UNCHANGED <<cfg, ip_windows, active_blocks, events, decisions, resp, th>>

\* POST /event {ip: "1.2.3.4", status: 429}
Burst429 ==
    /\ Len(events) < MaxBurst
    /\ Handle([ip |-> BurstKey, ts_ms |-> None, status |-> 429, latency_ms |-> None])

NextBurst ==
    \/ TickBurst
    \/ Burst429

SpecBurst == InitBurst /\ [][NextBurst]_vars

----------------------------------------------------------------------------
(* SpecStats: compute_ip_stats applied to the windows of up to MaxWin items  *)
(* that add_to_windows can leave (a latency of 0 is stored as -1).           *)

MaxWin == 2

WindowItems == {<<0, s, l>> : s \in {200, 429, 499, 500, 503}, l \in {-1, 3, 9}}

RECURSIVE SeqsUpTo(_, _)
SeqsUpTo(S, n) ==
    IF n = 0 THEN {<<>>}
    ELSE LET shorter == SeqsUpTo(S, n - 1)
         IN shorter \cup {Append(q, x) : q \in shorter, x \in S}

InitStats ==
    /\ cfg = SmallCfg
    /\ now = 0
    /\ \E w \in SeqsUpTo(WindowItems, MaxWin) :
        ip_windows = [k \in Keys |-> IF k = BurstKey THEN w ELSE <<>>]
    /\ active_blocks = <<>>
    /\ events = <<>>
    /\ decisions = <<>>
    /\ resp = NoResp
    /\ th = [t \in Threads |-> Idle]

\* st = compute_ip_stats(ip)
ComputeStats(ip) ==
    /\ resp' = [op |-> "stats", ip |-> ip, st |-> compute_ip_stats(ip_windows, ip)]
    /\ UNCHANGED <<cfg, now, ip_windows, active_blocks, events, decisions, th>>

NextStats == \E ip \in Keys : ComputeStats(ip)

SpecStats == InitStats /\ [][NextStats]_vars

----------------------------------------------------------------------------
(* SpecDecide: maybe_decide called for a key whatever its window holds, none *)
(* at all included, under every configuration whose four thresholds are 0   *)
(* or the small value.                                                      *)

ZeroOr(n) == {0, n}

DecideItems == {<<0, 429, -1>>, <<0, 503, 9>>}

InitDecide ==
    /\ \E a \in ZeroOr(SmallCfg.MAX_429_PER_WINDOW),
          b \in ZeroOr(SmallCfg.MAX_5XX_PER_WINDOW),
          c \in ZeroOr(SmallCfg.MAX_TIMEOUTS_PER_WINDOW),
          d \in ZeroOr(SmallCfg.MAX_LATENCY_P95_MS) :
        cfg = [SmallCfg EXCEPT !.MAX_429_PER_WINDOW = a,
                               !.MAX_5XX_PER_WINDOW = b,
                               !.MAX_TIMEOUTS_PER_WINDOW = c,
                               !.MAX_LATENCY_P95_MS = d]
    /\ now = 0
    /\ \E w \in SeqsUpTo(DecideItems, MaxWin) :
        ip_windows = [k \in Keys |-> IF k = BurstKey THEN w ELSE <<>>]
    /\ active_blocks = <<>>
    /\ events = <<>>
    /\ decisions = <<>>
    /\ resp = NoResp
    /\ th = [t \in Threads |-> Idle]

\* decision = maybe_decide(ip)
MaybeDecide(ip) ==
    /\ LET r == maybe_decide(ip_windows, active_blocks, decisions, ip, now)
       IN /\ decisions' = r.decisions
          /\ active_blocks' = r.active_blocks
          /\ resp' = [op |-> "decide", ip |-> ip, raised |-> r.raised,
                      decision |-> r.ret]
    /\ UNCHANGED <<cfg, now, ip_windows, events, th>>

NextDecide ==
    \/ \E ip \in Keys : ComputeStats(ip)
    \/ \E ip \in Keys : MaybeDecide(ip)

SpecDecide == InitDecide /\ [][NextDecide]_vars

----------------------------------------------------------------------------
(* SpecPercentile: percentile(values, 0.95) applied to every list of up to   *)
(* MaxLen values, to the list 100..500 in both orders, and to the lists      *)
(* 1..n of 11, 21 and 31 values, where 0.95 * (n - 1) falls on a half.       *)

MaxLen == 3

PercentileValues == {100, 200, 300, 400, 500}

Ramp(n) == [i \in 1..n |-> i]

PercentileInputs ==
    SeqsUpTo(PercentileValues, MaxLen)
        \cup {<<100, 200, 300, 400, 500>>, <<500, 400, 300, 200, 100>>}
        \cup {Ramp(n) : n \in {11, 21, 31}}

InitPercentile ==
    /\ cfg = DefaultCfg
    /\ now = 0
    /\ ip_windows = [k \in Keys |-> <<>>]
    /\ active_blocks = <<>>
    /\ events = <<>>
    /\ decisions = <<>>
    /\ resp = NoResp
    /\ th = [t \in Threads |-> Idle]

\* percentile(values, 0.95)
ApplyPercentile(values) ==
    /\ resp' = [op |-> "percentile", values |-> values,
                result |-> percentile(values, 95)]
    /\ UNCHANGED <<cfg, now, ip_windows, active_blocks, events, decisions, th>>

NextPercentile == \E values \in PercentileInputs : ApplyPercentile(values)

SpecPercentile == InitPercentile /\ [][NextPercentile]_vars

----------------------------------------------------------------------------
(* SpecQuery: the requests of every endpoint handled one at a time, with and *)
(* without a summarizer configured, and the process restarted at any time.   *)

MaxQueryEvents == 2
MaxQueryTime == 500

\* a fast answer, a 429 and a slow 503 for one ip, the slow 503 for the other
QueryEventIn ==
    {e \in ServerStamped : e.status = 503 \/ (e.ip = "1.2.3.4" /\ e.status # 500)}

\* limit of GET /decisions: an int, 200 when omitted
ListLimits == {-1, 0, 1, 2, 200}

\* the body of POST /analyze, session omitted
AnalyzeIn ==
    { [from_ts_ms |-> f, to_ts_ms |-> None, ip |-> i, limit |-> 3000] :
        f \in {None, Some(500)}, i \in {None, Some("1.2.3.4")} }

InitQuery ==
    /\ \E key \in {"", "key"} :
        cfg = [SmallCfg EXCEPT !.GEMINI_API_KEY = key, !.GEMINI_MODEL = "gemini-2.5-flash"]
    /\ now = 0
    /\ ip_windows = [k \in Keys |-> <<>>]
    /\ active_blocks = <<>>
    /\ events = <<>>
    /\ decisions = <<>>
    /\ resp = NoResp
    /\ th = [t \in Threads |-> Idle]

TickQuery ==
    /\ \E d \in TickSteps : now + d <= MaxQueryTime /\ now' = now + d
    /\ UNCHANGED <<cfg, ip_windows, active_blocks, events, decisions, resp, th>>

\* POST /event, lines 265-270
IngestQuery(e) ==
    /\ Len(events) < MaxQueryEvents
    /\ Handle(e)

\* GET /decisions?limit=, lines 273-292
ListDecisions(limit) ==
    /\ \E out \in list_decisions(decisions, limit) : resp' = [op |-> "decisions"] @@ out
    /\ UNCHANGED <<cfg, now, ip_windows, active_blocks, events, decisions, th>>

\* POST /analyze, lines 302-390
Analyze(filters, g) ==
    /\ resp' = [op |-> "analyze"] @@ analyze(events, filters, g, now)
    /\ UNCHANGED <<cfg, now, ip_windows, active_blocks, events, decisions, th>>

NextQuery ==
    \/ TickQuery
    \/ \E e \in QueryEventIn : IngestQuery(e)
    \/ ListBlocks
    \/ \E limit \in ListLimits : ListDecisions(limit)
    \/ \E filters \in AnalyzeIn, g \in GeminiOutcomes : Analyze(filters, g)
    \/ Crash

SpecQuery == InitQuery /\ [][NextQuery]_vars

----------------------------------------------------------------------------
(* SpecLive: the requests handled one at a time while the clock keeps         *)
(* advancing, up to MaxLiveTime; an event is taken only while a block it may  *)
(* cause ends within that time.                                               *)

MaxLiveEvents == 3
MaxLiveTime == 2000

\* a fast answer and a slow 503 for one ip, the slow 503 for the other
LiveEventIn ==
    {e \in ServerStamped :
        \/ e.status = 503
        \/ e.status = 200 /\ e.ip = "1.2.3.4"}

TickLive ==
    /\ \E d \in TickSteps : now + d <= MaxLiveTime /\ now' = now + d
    /\ UNCHANGED <<cfg, ip_windows, active_blocks, events, decisions, resp, th>>

\* POST /event, lines 265-270
IngestLive(e) ==
    /\ Len(events) < MaxLiveEvents
    /\ now + cfg.BLOCK_TTL_SEC * 1000 <= MaxLiveTime
    /\ Handle(e)

NextLive ==
    \/ TickLive
    \/ \E e \in LiveEventIn : IngestLive(e)
    \/ ListBlocks

\* time.time() does not stand still
SpecLive == Init /\ [][NextLive]_vars /\ WF_vars(TickLive)

----------------------------------------------------------------------------
(* What the claims speak of, stated on the tables and the windows. *)

\* a step that handled one POST /event to its end
IngestStep == Len(events') = Len(events) + 1

\* the rows of ip k in the events table, oldest first
KeyEvents(evs, k) == SelectSeq(evs, LAMBDA r : r.ip = k)

\* the ledger rows whose target is k
KeyDecisions(ledger, k) == SelectSeq(ledger, LAMBDA d : d.target = k)

\* some decision of the ledger blocks k at time t
BlockedByLedger(ledger, k, t) ==
    \E i \in 1..Len(ledger) :
        /\ ledger[i].target = k
        /\ t < ledger[i].ts_ms + ledger[i].ttl_sec * 1000

N429(w) == Cardinality({i \in 1..Len(w) : w[i][2] = 429})
N5xx(w) == Cardinality({i \in 1..Len(w) : w[i][2] >= 500 /\ w[i][2] <= 599})
NDisc(w) == Cardinality({i \in 1..Len(w) : w[i][2] \in DISCONNECT_STATUS})
P95(w) == percentile(Latencies(SelectSeq(w, Measured)), 95)

Hit429(w) == N429(w) >= cfg.MAX_429_PER_WINDOW
Hit5xx(w) == N5xx(w) >= cfg.MAX_5XX_PER_WINDOW
HitDisc(w) == NDisc(w) >= cfg.MAX_TIMEOUTS_PER_WINDOW
HitP95(w) == P95(w) # None /\ P95(w)[1] >= cfg.MAX_LATENCY_P95_MS
AnyRule(w) == Hit429(w) \/ Hit5xx(w) \/ HitDisc(w) \/ HitP95(w)

\* the matched rules' descriptions, in the order of the four rules
RuleTexts(w) ==
    LET W == ToString(cfg.WINDOW_SEC)
    IN (IF Hit429(w) THEN <<"too many 429 in " \o W \o "s (" \o ToString(N429(w)) \o ")">>
        ELSE <<>>)
       \o (IF Hit5xx(w) THEN <<"too many 5xx in " \o W \o "s (" \o ToString(N5xx(w)) \o ")">>
           ELSE <<>>)
       \o (IF HitDisc(w)
           THEN <<"too many disconnect/timeout-like statuses in " \o W \o "s ("
                  \o ToString(NDisc(w)) \o ")">>
           ELSE <<>>)
       \o (IF HitP95(w) THEN <<"p95 latency too high (" \o ToString(P95(w)[1]) \o "ms)">>
           ELSE <<>>)

\* one to four texts with "; " between them
Semicolons(r) ==
    IF Len(r) = 1 THEN r[1]
    ELSE IF Len(r) = 2 THEN r[1] \o "; " \o r[2]
    ELSE IF Len(r) = 3 THEN r[1] \o "; " \o r[2] \o "; " \o r[3]
    ELSE r[1] \o "; " \o r[2] \o "; " \o r[3] \o "; " \o r[4]

\* C1: once a decision blocks key K at server time T with ttl_sec S, an ingest
\* for K handled before T + S*1000 returns no decision and appends nothing to
\* the ledger; an ingest for K handled at or after every such instant, with
\* window statistics matching a rule, appends exactly one decision, for K.
C1_AtMostOneActiveBlock ==
    [][IngestStep =>
        LET k == events'[Len(events')].ip
        IN /\ BlockedByLedger(decisions, k, now) =>
                /\ decisions' = decisions
                /\ resp'.decision = None
           /\ (~BlockedByLedger(decisions, k, now) /\ AnyRule(ip_windows'[k])) =>
                /\ Len(decisions') = Len(decisions) + 1
                /\ SubSeq(decisions', 1, Len(decisions)) = decisions
                /\ decisions'[Len(decisions')].target = k
                /\ decisions'[Len(decisions')].ts_ms = now
                /\ resp'.decision = Some(decisions'[Len(decisions')])]_vars

\* a key was blocked, an event for it arrived while the block lasted, and a
\* second decision was made for it once the block had lapsed
C1_Witness ==
    \E k \in Keys :
        LET ds == KeyDecisions(decisions, k)
        IN /\ Len(ds) = 2
           /\ ds[2].ts_ms >= ds[1].ts_ms + ds[1].ttl_sec * 1000
           /\ \E i \in 1..Len(events) :
                /\ events[i].ip = k
                /\ events[i].ts_ms > ds[1].ts_ms
                /\ events[i].ts_ms < ds[1].ts_ms + ds[1].ttl_sec * 1000

\* the events-table rows behind the items of k's window: the deque is
\* appended on the right and popped on the left, so they are k's newest rows
WindowRows(k) ==
    LET ins == KeyEvents(events, k)
    IN SubSeq(ins, Len(ins) - Len(ip_windows[k]) + 1, Len(ins))

\* the registry entry of k, None when k has none
Entry(blocks, k) == IF k \in DOMAIN blocks THEN Some(blocks[k]) ELSE None

\* k has no entry in the registry, or one that has expired at time t
Unblocked(blocks, k, t) == k \notin DOMAIN blocks \/ blocks[k] <= t

\* C3: whenever the window of a key is read for statistics, at a reference
\* time t (server time, or the timestamp of the sample just inserted), the
\* samples used are exactly the inserted samples with t - timestamp <= W, in
\* ascending timestamp order.
C3_WindowIsTrailingW ==
    [][(IngestStep /\ Unblocked(active_blocks, events'[Len(events')].ip, now)) =>
        LET k == events'[Len(events')].ip
            w == ip_windows'[k]
            ins == KeyEvents(events', k)
            n == Len(ins)
            m == Len(w)
        IN \E t \in {now, w[m][1]} :
            /\ m <= n
            /\ \A i \in 1..m : w[i][1] = ins[n - m + i].ts_ms
            /\ \A i \in 1..n :
                (t - ins[i].ts_ms <= cfg.WINDOW_SEC * 1000) <=> (i > n - m)
            /\ \A i \in 1..(m - 1) : w[i][1] <= w[i + 1][1]]_vars

\* C5: the ledger gets a row for a key, and the registry an entry for it,
\* only in the ingest of an event of that key whose window statistics satisfy
\* one of the four rules; samples that never satisfy one leave both alone.
C5_NoRuleNoDecision ==
    [][\A k \in Keys :
        (\/ KeyDecisions(decisions', k) # KeyDecisions(decisions, k)
         \/ Entry(active_blocks', k) # Entry(active_blocks, k)) =>
            /\ IngestStep
            /\ events'[Len(events')].ip = k
            /\ AnyRule(ip_windows'[k])]_vars

\* several samples of a key, a 429 among them, no rule satisfied, no decision
\* and no registry entry for the key
C5_Witness ==
    \E k \in Keys :
        /\ Len(ip_windows[k]) >= 2
        /\ N429(ip_windows[k]) >= 1
        /\ ~AnyRule(ip_windows[k])
        /\ KeyDecisions(decisions, k) = <<>>
        /\ k \notin DOMAIN active_blocks

\* what C6 says of one ingest, the decision's kind being `kind`
C6Step(kind) ==
    (IngestStep /\ Unblocked(active_blocks, events'[Len(events')].ip, now)) =>
        LET k == events'[Len(events')].ip
            w == ip_windows'[k]
        IN /\ (resp'.decision # None) <=> AnyRule(w)
           /\ resp'.decision # None =>
                LET d == resp'.decision[1]
                IN /\ d.reason = Semicolons(RuleTexts(w))
                   /\ d.kind = kind
                   /\ d.target = k
                   /\ d.ttl_sec = cfg.BLOCK_TTL_SEC
                   /\ d.ts_ms = now
                   /\ d.evidence =
                        [stats |-> [ip |-> k, window_sec |-> cfg.WINDOW_SEC,
                                    count |-> Len(w), status_429 |-> N429(w),
                                    status_5xx |-> N5xx(w), disconnect_like |-> NDisc(w),
                                    latency_p95_ms |-> P95(w)]]
                   /\ k \in DOMAIN active_blocks'
                   /\ active_blocks'[k] = now + cfg.BLOCK_TTL_SEC * 1000

\* C6, as claimed: for an unblocked key a decision is emitted iff a rule
\* matches; its reason is the matched rules' texts in rule order joined by
\* "; ", its kind is "block", its ttl_sec is BLOCK_TTL_SEC, its evidence the
\* statistics, and the registry entry becomes now + ttl_sec*1000.
C6_KindIsBlock == [][C6Step("block")]_vars

\* C6, amended: the same with the kind the code writes, "block_ip".
C6_DecisionShape == [][C6Step("block_ip")]_vars

\* a decision whose reason joins three matched rules
C6_Witness ==
    /\ resp.op = "event"
    /\ resp.decision # None
    /\ LET w == ip_windows[resp.decision[1].target]
       IN /\ Len(RuleTexts(w)) >= 3
          /\ resp.decision[1].reason = Semicolons(RuleTexts(w))
          /\ resp.decision[1] = decisions[Len(decisions)]

\* C8: a key is treated as blocked, by the ingest and by GET /blocks, iff
\* the registry holds it with an expiry > now; GET /blocks returns exactly
\* those entries; no entry is ever removed; an entry is written only when a
\* new decision for its key is emitted.
C8_RegistryLazyExpiry ==
    [][/\ DOMAIN active_blocks \subseteq DOMAIN active_blocks'
       /\ DOMAIN active_blocks' \subseteq Keys
       /\ \A k \in Keys :
            Entry(active_blocks', k) # Entry(active_blocks, k) =>
                /\ IngestStep
                /\ Len(decisions') = Len(decisions) + 1
                /\ decisions'[Len(decisions')].target = k
                /\ active_blocks'[k] = decisions'[Len(decisions')].ts_ms
                                        + decisions'[Len(decisions')].ttl_sec * 1000
       /\ IngestStep =>
            LET k == events'[Len(events')].ip
            IN IF k \in DOMAIN active_blocks /\ active_blocks[k] > now
               THEN resp'.decision = None /\ decisions' = decisions
               ELSE (resp'.decision # None) <=> AnyRule(ip_windows'[k])
       /\ (resp'.op = "blocks" /\ events' = events /\ now' = now) =>
            /\ DOMAIN resp'.active_blocks =
                 {k \in DOMAIN active_blocks : active_blocks[k] > now}
            /\ \A k \in DOMAIN resp'.active_blocks :
                 resp'.active_blocks[k] = active_blocks[k]]_vars

\* GET /blocks answered at the very instant an entry expires: the entry is
\* still in the registry and is not reported
C8_Witness ==
    /\ resp.op = "blocks"
    /\ resp.now_ms = now
    /\ \E k \in DOMAIN active_blocks :
        /\ active_blocks[k] = now
        /\ k \notin DOMAIN resp.active_blocks
    /\ \E k \in DOMAIN active_blocks : k \in DOMAIN resp.active_blocks

\* C9: latency_p95_ms is the percentile over every sample of the window whose
\* latency_ms was given, a given 0 included, and is absent iff none was given.
C9_P95OverMeasured ==
    \A k \in Keys :
        ip_windows[k] # <<>> =>
            LET rows == WindowRows(k)
                given == SelectSeq(rows, LAMBDA r : r.latency_ms # None)
                lat == [i \in 1..Len(given) |-> given[i].latency_ms[1]]
                st == compute_ip_stats(ip_windows, k)
            IN /\ st.latency_p95_ms = percentile(lat, 95)
               /\ (st.latency_p95_ms = None) <=> (lat = <<>>)

\* C2: in no interleaving of concurrent ingests do two requests both pass
\* the not-blocked check and both append a decision for the same key with
\* less than ttl_sec seconds between the two decisions.
C2_OneDecisionPerTtl ==
    \A i, j \in 1..Len(decisions) :
        (i < j /\ decisions[i].target = decisions[j].target) =>
            decisions[j].ts_ms >= decisions[i].ts_ms + decisions[i].ttl_sec * 1000

\* a registry entry and the ledger row it was computed from
Recorded(ledger, k, exp) ==
    \E i \in 1..Len(ledger) :
        ledger[i].target = k /\ ledger[i].ts_ms + ledger[i].ttl_sec * 1000 = exp

\* C4: no reachable state, a crash included, has a registry entry whose
\* decision is not in the ledger; the registry is written only after the row
\* is in the ledger; and a failing ledger insert ends the request with the
\* error, the ledger and the registry unchanged, so that the key is still
\* unblocked for the next ingest.
C4_LedgerBeforeRegistry ==
    /\ [](\A k \in DOMAIN active_blocks : Recorded(decisions, k, active_blocks[k]))
    /\ [][\A k \in DOMAIN active_blocks' :
            Entry(active_blocks', k) # Entry(active_blocks, k) =>
                Recorded(decisions, k, active_blocks'[k])]_vars
    /\ [][\A t \in Threads :
            (th[t].pc = "insert" /\ th'[t].pc = "idle" /\ resp'.op = "event") =>
                /\ resp' = [op |-> "event", ok |-> FALSE, raised |-> "maybe_decide"]
                /\ decisions' = decisions
                /\ active_blocks' = active_blocks
                /\ IsBlocked(active_blocks', th[t].e.ip, now') =>
                        BlockedByLedger(decisions', th[t].e.ip, now')]_vars

\* a ledger insert has just failed for a key whose window satisfies a rule:
\* the key has no registry entry and no ledger row
C4_Witness ==
    /\ resp.op = "event"
    /\ ~resp.ok
    /\ resp.raised = "maybe_decide"
    /\ \E k \in Keys :
        /\ AnyRule(ip_windows[k])
        /\ k \notin DOMAIN active_blocks
        /\ KeyDecisions(decisions, k) = <<>>
        /\ \A t \in Threads : th[t].pc = "idle"

\* C7: with threshold N = MAX_429_PER_WINDOW (20 by default) and 429 after
\* 429 for one key inside one window, events 1..N-1 produce no decision, the
\* N-th produces the only decision, whose reason reports the count N and
\* whose ttl_sec is the default, the key is then reported blocked, and the
\* later events produce no further decision.
C7_NthEventDecides ==
    LET n == Len(events)
        N == cfg.MAX_429_PER_WINDOW
    IN /\ n < N =>
            /\ decisions = <<>>
            /\ active_blocks = <<>>
            /\ resp.op = "event" => resp.decision = None
       /\ n >= N =>
            /\ Len(decisions) = 1
            /\ decisions[1].target = BurstKey
            /\ decisions[1].reason = "too many 429 in 60s (" \o ToString(N) \o ")"
            /\ N = 20 => decisions[1].reason = "too many 429 in 60s (20)"
            /\ decisions[1].ttl_sec = BLOCK_TTL_SEC
            /\ decisions[1].evidence.stats.count = N
            /\ decisions[1].ts_ms = events[N].ts_ms
            /\ BurstKey \in DOMAIN list_blocks(active_blocks, now).active_blocks
            /\ (resp.decision # None) <=> (resp.event_id = N)
            /\ resp.event_id = N => resp.decision = Some(decisions[1])

\* the default threshold of 20 and all 25 events ingested
C7_Witness ==
    /\ cfg = DefaultCfg
    /\ Len(events) = 25
    /\ Len(decisions) = 1
    /\ decisions[1].evidence.stats.status_429 = 20
    /\ resp.event_id = 25
    /\ resp.decision = None

\* a field of the statistics, with its value
Has(st, f, v) == f \in DOMAIN st /\ st[f] = v

\* the four counters of C10 for window w, in statistics st
Counts(st, w) ==
    /\ Has(st, "count", Len(w))
    /\ Has(st, "status_429", N429(w))
    /\ Has(st, "status_5xx", N5xx(w))
    /\ Has(st, "disconnect_like", NDisc(w))

C11_ZeroSamplesNoRule ==
    /\ (resp.op = "stats" /\ ip_windows[resp.ip] = <<>>) => resp.st.count = 0
    /\ (resp.op = "decide" /\ ip_windows[resp.ip] = <<>>) =>
            /\ resp.raised = None
            /\ resp.decision = None
            /\ KeyDecisions(decisions, resp.ip) = <<>>
            /\ resp.ip \notin DOMAIN active_blocks

\* k is num/den rounded to the nearest integer, a tie going to the even one
IsRounded(k, num, den) ==
    LET diff == IF den * k >= num THEN den * k - num ELSE num - den * k
    IN /\ 2 * diff <= den
       /\ 2 * diff = den => k % 2 = 0

\* x is the element at index k (from 0) of v sorted ascending
IsKthSmallest(v, k, x) ==
    /\ \E i \in 1..Len(v) : v[i] = x
    /\ Cardinality({i \in 1..Len(v) : v[i] < x}) <= k
    /\ k < Cardinality({i \in 1..Len(v) : v[i] <= x})

\* C12: percentile(values, 0.95) of n > 0 values is the element at index
\* round(0.95 * (n - 1)), an index within 0..n-1, of the values sorted
\* ascending, hence one of the values; it is 500 for [100,200,300,400,500];
\* it is absent for the empty list.
C12_PercentileRank ==
    resp.op = "percentile" =>
        LET v == resp.values
            n == Len(v)
        IN /\ n = 0 => resp.result = None
           /\ n > 0 =>
                /\ resp.result # None
                /\ \E k \in 0..(n - 1) :
                      /\ IsRounded(k, 95 * (n - 1), 100)
                      /\ IsKthSmallest(v, k, resp.result[1])
           /\ v = <<100, 200, 300, 400, 500>> => resp.result = Some(500)

\* the example of the claim, given in descending order
C12_Witness ==
    /\ resp.op = "percentile"
    /\ resp.values = <<500, 400, 300, 200, 100>>
    /\ resp.result = Some(500)

\* the external call failed: no connection, the timeout, a non-success
\* status, a body that is not JSON, or JSON without the text
CallFailed(g) ==
    \/ g.kind # "response"
    \/ g.status_code >= 300
    \/ g.json = None
    \/ ~HasText(g.json[1])

\* the key points of the local rule for statistics st: one per non-zero
\* signal, in the order 429, 5xx, disconnect-like, high p95
SignalPoints(st) ==
    LET signal == << st.status_429 # 0,
                    st.status_5xx # 0,
                    st.disconnect_like # 0,
                    st.latency_p95_ms # None
                        /\ st.latency_p95_ms[1] >= cfg.MAX_LATENCY_P95_MS >>
        text == << "429 detected: possible rate limiting / protection",
                  "5xx detected: backend crash/restart/timeout",
                  "disconnect-like statuses detected",
                  "p95 latency high: saturation or downstream slowness" >>
        on == SelectSeq(<<1, 2, 3, 4>>, LAMBDA i : signal[i])
    IN [i \in 1..Len(on) |-> text[on[i]]]

\* the response r is what the local rule gives for its statistics
LocalAnswer(r) ==
    /\ r.used_gemini = FALSE
    /\ r.key_points = SignalPoints(r.supporting_stats)
    /\ r.key_points = <<>> =>
            r.summary = "Insufficient signal; widen time range or filter by ip/session."
    /\ r.key_points # <<>> =>
            /\ Len(r.key_points) = 1 => r.summary = r.key_points[1]
            /\ \A i \in 1..Len(r.key_points) : Len(r.summary) >= Len(r.key_points[i])
    /\ r.suggested_actions = << "Lower RPM temporarily for affected sessions",
                                "Mark suspect proxy as BAD and switch sessions",
                                "Inspect logs around the spike window" >>

\* C13: with a summarizer configured, every failure of the external call
\* (no connection, timeout, non-success status, a body that cannot be parsed
\* or lacks the text) makes analyze answer with the local rule and
\* used_gemini = false, nothing of the failed call being in the answer.
C13_FailureFallsBack ==
    [][\A filters \in AnalyzeIn, g \in GeminiOutcomes :
        (Configured /\ CallFailed(g) /\ Analyze(filters, g)) =>
            LocalAnswer(resp')]_vars

\* C14: with no summarizer configured analyze answers used_gemini = false,
\* one key point per non-zero signal in the order 429, 5xx, disconnect-like,
\* high p95, a non-empty summary whenever a counter is non-zero, the generic
\* message as summary when every counter is zero, the three fixed suggested
\* actions, and a summary of at most 2000 characters.
C14_LocalAnswer ==
    (resp.op = "analyze" /\ ~Configured) =>
        LET st == resp.supporting_stats
            counters == {st.count, st.status_429, st.status_5xx, st.disconnect_like}
        IN /\ LocalAnswer(resp)
           /\ counters # {0} => resp.summary # ""
           /\ counters = {0} =>
                resp.summary = "Insufficient signal; widen time range or filter by ip/session."
           /\ Len(resp.summary) <= 2000

\* no summarizer, and an answer with the four key points
C14_Witness ==
    /\ resp.op = "analyze"
    /\ ~Configured
    /\ resp.supporting_stats.status_429 = 1
    /\ resp.supporting_stats.latency_p95_ms = Some(9)
    /\ Len(resp.key_points) = 4
    /\ resp.key_points[3] = "disconnect-like statuses detected"
    /\ resp.summary = resp.key_points[1] \o " | " \o resp.key_points[2] \o " | "
                        \o resp.key_points[3] \o " | " \o resp.key_points[4]

\* out is made of distinct rows of the ledger, newest first, and no row left
\* out is newer than one of out
NewestFirst(out, ledger) ==
    /\ \A i \in 1..(Len(out) - 1) : out[i].ts_ms >= out[i + 1].ts_ms
    /\ \E p \in [1..Len(out) -> 1..Len(ledger)] :
        /\ \A i, j \in 1..Len(out) : i # j => p[i] # p[j]
        /\ \A i \in 1..Len(out) : out[i] = ledger[p[i]]
        /\ \A j \in 1..Len(ledger) :
            (\A i \in 1..Len(out) : p[i] # j) =>
                \A i \in 1..Len(out) : ledger[j].ts_ms <= out[i].ts_ms

C16_RecordEvictsOlderThanW ==
    [][IngestStep =>
        LET e == events'[Len(events')]
            w == ip_windows'[e.ip]
        IN /\ resp'.ok
           /\ w # <<>>
           /\ w[Len(w)][1] = e.ts_ms
           /\ w[Len(w)][2] = e.status
           /\ \A i \in 1..Len(w) : w[i][1] >= e.ts_ms - cfg.WINDOW_SEC * 1000]_vars

\* the registry holds k with an expiry still ahead
Blocked(k) == k \in DOMAIN active_blocks /\ now < active_blocks[k]

\* GET /blocks, asked now, would name k
Reported(k) == k \in DOMAIN list_blocks(active_blocks, now).active_blocks

\* C17: a key is Blocked or Unblocked and nothing else: it is reported by
\* GET /blocks exactly while Blocked; every block lapses as the clock
\* advances; once the expiry is reached the key stays unblocked for as long
\* as no new decision is emitted for it; while Blocked it gets no decision
\* and its entry is not touched; and it becomes Blocked only in the ingest
\* of one of its events, by a decision made then from the four rules on the
\* statistics of the window as it then is.
C17_BlockLapsesAndReentry ==
    /\ \A k \in Keys : Blocked(k) ~> ~Reported(k)
    /\ [](\A k \in Keys : Reported(k) <=> Blocked(k))
    /\ [][\A k \in Keys :
            /\ (~Blocked(k) /\ KeyDecisions(decisions', k) = KeyDecisions(decisions, k)) =>
                    ~Blocked(k)' /\ ~Reported(k)'
            /\ Blocked(k) =>
                    /\ KeyDecisions(decisions', k) = KeyDecisions(decisions, k)
                    /\ active_blocks'[k] = active_blocks[k]
            /\ (~Blocked(k) /\ Blocked(k)') =>
                    LET w == ip_windows'[k]
                        d == decisions'[Len(decisions')]
                    IN /\ IngestStep
                       /\ events'[Len(events')].ip = k
                       /\ AnyRule(w)
                       /\ decisions' = Append(decisions, d)
                       /\ d.target = k
                       /\ d.ts_ms = now
                       /\ d.reason = Semicolons(RuleTexts(w))
                       /\ d.evidence.stats.count = Len(w)
                       /\ d.evidence.stats.status_429 = N429(w)
                       /\ d.evidence.stats.status_5xx = N5xx(w)
                       /\ d.evidence.stats.disconnect_like = NDisc(w)
                       /\ d.evidence.stats.latency_p95_ms = P95(w)
                       /\ active_blocks'[k] = now + d.ttl_sec * 1000]_vars

\* a key was blocked twice, the second time once the first block had lapsed,
\* the second block has lapsed as well and GET /blocks no longer names the key
C17_Witness ==
    \E k \in Keys :
        /\ Len(KeyDecisions(decisions, k)) = 2
        /\ KeyDecisions(decisions, k)[2].ts_ms
                = KeyDecisions(decisions, k)[1].ts_ms + cfg.BLOCK_TTL_SEC * 1000
        /\ now >= active_blocks[k]
        /\ resp.op = "blocks"
        /\ resp.now_ms = now
        /\ k \notin DOMAIN resp.active_blocks

\* C18: whenever no request is half way, each registry entry (K, E) has a
\* ledger row with target K and ts_ms + ttl_sec*1000 = E, no row of K being
\* more recent than it; and the expiry stored for a key never decreases.
C18_RegistryMatchesLatestDecision ==
    /\ []((\A t \in Threads : th[t].pc = "idle") =>
            \A k \in DOMAIN active_blocks :
                LET ds == KeyDecisions(decisions, k)
                IN \E i \in 1..Len(ds) :
                    /\ ds[i].ts_ms + ds[i].ttl_sec * 1000 = active_blocks[k]
                    /\ \A j \in 1..Len(ds) : ds[j].ts_ms <= ds[i].ts_ms)
    /\ [][\A k \in DOMAIN active_blocks :
            k \in DOMAIN active_blocks' /\ active_blocks'[k] >= active_blocks[k]]_vars

\* C19: the ingest of an event of key A leaves the window and the registry
\* entry of every other key B as they were and adds no decision for B; and
\* GET /blocks, GET /decisions and POST /analyze change no window, no
\* registry entry and no ledger row.
C19_PerKeyIsolation ==
    [][/\ IngestStep =>
            \A b \in Keys \ {events'[Len(events')].ip} :
                /\ ip_windows'[b] = ip_windows[b]
                /\ Entry(active_blocks', b) = Entry(active_blocks, b)
                /\ KeyDecisions(decisions', b) = KeyDecisions(decisions, b)
       /\ (resp' # resp /\ resp'.op \in {"blocks", "decisions", "analyze"}) =>
            /\ ip_windows' = ip_windows
            /\ active_blocks' = active_blocks
            /\ decisions' = decisions
            /\ events' = events]_vars

\* an ingest has just blocked one key while the other key has a window, a
\* registry entry and a decision of its own
C19_Witness ==
    /\ resp.op = "event"
    /\ resp.decision # None
    /\ \E b \in Keys \ {resp.decision[1].target} :
        /\ ip_windows[b] # <<>>
        /\ b \in DOMAIN active_blocks
        /\ Len(KeyDecisions(decisions, b)) = 1
        /\ active_blocks[b] = KeyDecisions(decisions, b)[1].ts_ms + cfg.BLOCK_TTL_SEC * 1000

\* the window item w_item is the sample of the events row r, put into the
\* window no earlier than the row was written
SampleOf(w_item, r) ==
    /\ w_item[2] = r.status
    /\ w_item[3] = (IF r.latency_ms # None /\ r.latency_ms[1] # 0
                    THEN r.latency_ms[1] ELSE -1)
    /\ r.ts_ms <= w_item[1]

\* every item of the window of k is the sample of a row of k of its own
Persisted(k) ==
    LET w == ip_windows[k]
        rows == KeyEvents(events, k)
    IN \E f \in [1..Len(w) -> 1..Len(rows)] :
        /\ \A i, j \in 1..Len(w) : i # j => f[i] # f[j]
        /\ \A i \in 1..Len(w) : SampleOf(w[i], rows[f[i]])

\* the row of the request thread t is handling
RowOf(t) == events[th[t].event_id]

\* C20: a sample enters the window only after its row is in the events
\* table, so every sample of every window has its row; an insert into events
\* that raises leaves window, registry and ledger as they were; an event of
\* a blocked key is recorded and put into the window like any other, only
\* the decision is skipped; and when the insert into decisions raises, the
\* sample stays in the window and its row in the events table.
C20_IngestStepOrder ==
    /\ [](\A k \in Keys : Persisted(k))
    /\ [][\A k \in Keys :
            (ip_windows'[k] # ip_windows[k] /\ ip_windows'[k] # <<>>) =>
                \E t \in Threads :
                    /\ th[t].pc = "add"
                    /\ th'[t].pc = "check"
                    /\ th[t].e.ip = k
                    /\ th[t].event_id \in 1..Len(events)
                    /\ RowOf(t).ip = k
                    /\ ip_windows'[k][Len(ip_windows'[k])][1] = now
                    /\ SampleOf(ip_windows'[k][Len(ip_windows'[k])], RowOf(t))]_vars
    /\ [][\A t \in Threads :
            /\ (th[t].pc = "record" /\ th'[t].pc = "idle" /\ resp'.op = "event") =>
                    /\ resp' = [op |-> "event", ok |-> FALSE, raised |-> "record_event"]
                    /\ ip_windows' = ip_windows
                    /\ active_blocks' = active_blocks
                    /\ decisions' = decisions
                    /\ events' = events
            /\ (th[t].pc = "check" /\ th'[t].pc = "idle" /\ resp'.op = "event") =>
                    /\ Blocked(th[t].e.ip)
                    /\ resp' = [op |-> "event", ok |-> TRUE,
                                event_id |-> th[t].event_id, decision |-> None]
                    /\ RowOf(t).ip = th[t].e.ip
                    /\ \E i \in 1..Len(ip_windows[th[t].e.ip]) :
                            SampleOf(ip_windows[th[t].e.ip][i], RowOf(t))
                    /\ decisions' = decisions
                    /\ ip_windows' = ip_windows
                    /\ events' = events
            /\ (th[t].pc = "insert" /\ th'[t].pc = "idle" /\ resp'.op = "event") =>
                    /\ ip_windows' = ip_windows
                    /\ events' = events
                    /\ RowOf(t).ip = th[t].e.ip
                    /\ \E i \in 1..Len(ip_windows'[th[t].e.ip]) :
                            SampleOf(ip_windows'[th[t].e.ip][i], RowOf(t))]_vars

\* an event of a key arrived while the key was blocked: it got no decision,
\* its row is in the events table and its sample in the window
C20_Witness ==
    /\ \A t \in Threads : th[t].pc = "idle"
    /\ resp.op = "event"
    /\ resp.ok
    /\ resp.decision = None
    /\ resp.event_id = 2
    /\ LET k == events[2].ip
       IN /\ Blocked(k)
          /\ Len(KeyDecisions(decisions, k)) = 1
          /\ Len(ip_windows[k]) = 2
          /\ SampleOf(ip_windows[k][2], events[2])
          /\ events[2].ts_ms > KeyDecisions(decisions, k)[1].ts_ms

====
